---- MODULE Spec2Model ----
(***************************************************************************)
(* Model of the workshop-mod optionalizer (src/main.py).                   *)
(*                                                                         *)
(* A text is a sequence of atoms.  An atom is one character ("{", "}",     *)
(* ":", " ", "\n", "\r") or a run of characters that the program only ever *)
(* looks at as a whole ("mod_package", "mp_mod_optional", "true", "false", *)
(* "x" for any other non-blank character).  The string operations of the   *)
(* program (splitlines, strip, startswith, count, in, join) are computed   *)
(* over atoms exactly as Python computes them over characters.             *)
(***************************************************************************)
EXTENDS Integers, Sequences, FiniteSets, TLC

\* ------------------------------------------------------------------------
\* Bounds
\* ------------------------------------------------------------------------
MaxLines == 5
MaxMods == 2

\* ------------------------------------------------------------------------
\* Python string primitives
\* ------------------------------------------------------------------------
IsSpace(c) == c \in {" ", "\n", "\r"}

RECURSIVE lstrip(_)
lstrip(s) ==
    IF s = <<>> THEN <<>>
    ELSE IF IsSpace(Head(s)) THEN lstrip(Tail(s))
    ELSE s

RECURSIVE rstrip(_)
rstrip(s) ==
    IF s = <<>> THEN <<>>
    ELSE IF IsSpace(s[Len(s)]) THEN rstrip(SubSeq(s, 1, Len(s) - 1))
    ELSE s

strip(s) == rstrip(lstrip(s))

startswith(s, p) == Len(s) >= Len(p) /\ SubSeq(s, 1, Len(p)) = p

\* p in s
contains(s, p) ==
    \E i \in 1..(Len(s) - Len(p) + 1) : SubSeq(s, i, i + Len(p) - 1) = p

\* s.count(c) for a one-character c
count(s, c) == Cardinality({i \in 1..Len(s) : s[i] = c})

\* str.splitlines(): "\n", "\r\n" and "\r" end a line; a final terminator
\* does not open an empty last line.
RECURSIVE SplitFrom(_, _, _)
SplitFrom(t, i, cur) ==
    IF i > Len(t) THEN (IF cur = <<>> THEN <<>> ELSE <<cur>>)
    ELSE IF t[i] = "\n" THEN <<cur>> \o SplitFrom(t, i + 1, <<>>)
    ELSE IF t[i] = "\r" THEN
        (IF i < Len(t) /\ t[i + 1] = "\n"
         THEN <<cur>> \o SplitFrom(t, i + 2, <<>>)
         ELSE <<cur>> \o SplitFrom(t, i + 1, <<>>))
    ELSE SplitFrom(t, i + 1, Append(cur, t[i]))

splitlines(t) == SplitFrom(t, 1, <<>>)

\* sep.join(ls)
RECURSIVE join(_, _)
join(ls, sep) ==
    IF ls = <<>> THEN <<>>
    ELSE IF Len(ls) = 1 THEN ls[1]
    ELSE ls[1] \o sep \o join(Tail(ls), sep)


\* ------------------------------------------------------------------------
\* Manifest helpers
\* ------------------------------------------------------------------------
FlagTrueText == <<"mp_mod_optional", ":", " ", "true">>

read_manifest_from_text(text) == contains(text, FlagTrueText)

\* value = 'true' if enable else 'false'
ValueOf(enable) == IF enable THEN "true" ELSE "false"

\* stripped.startswith("mod_package") and ":" in stripped
IsHeader(stripped) ==
    startswith(stripped, <<"mod_package">>) /\ contains(stripped, <<":">>)

\* "mp_mod_optional:" in stripped
IsFlagLine(stripped) == contains(stripped, <<"mp_mod_optional", ":">>)

\* brace_level = line.count("{") on a header line
HeaderLevel(line) == count(line, "{")

\* brace_level += line.count("{"); brace_level -= line.count("}")
LevelAfter(level, line) == level + count(line, "{") - count(line, "}")

\* brace_level == 0 and stripped == "}"
IsClosing(level, stripped) == level = 0 /\ stripped = <<"}">>

\* line[:-len(line.lstrip())]  (a slice ending at -0 is empty)
IndentOf(line) ==
    LET k == Len(lstrip(line))
    IN  IF k = 0 THEN <<>> ELSE SubSeq(line, 1, Len(line) - k)

\* the replacement written without the blank after the colon
ReplacedLine_NoBlank(line, value) ==
    IndentOf(line) \o <<"mp_mod_optional", ":", value>>

\* f"{indent}mp_mod_optional: {value}"
ReplacedLine(line, value) ==
    IndentOf(line) \o <<"mp_mod_optional", ":", " ", value>>

\* the closing line appended in place of the new flag line
InsertedLine_Dup(line, value) == line

\* f"{indent}    mp_mod_optional: {value}"
InsertedLine(line, value) ==
    IndentOf(line) \o <<" ", " ", " ", " ">>
                   \o <<"mp_mod_optional", ":", " ", value>>

\* the scan started in block mode
ScanInit_InBlock ==
    [in_block |-> TRUE, brace_level |-> 0, modified |-> FALSE,
     result |-> <<>>]

\* the loop variables of toggle_manifest_text before the first line
ScanInit ==
    [in_block |-> FALSE, brace_level |-> 0, modified |-> FALSE,
     result |-> <<>>]

\* one iteration of the loop of toggle_manifest_text
LineStep(s, line, value) ==
    LET stripped == strip(line)
        hdr      == IsHeader(stripped)
        inb      == hdr \/ s.in_block
        lvl0     == IF hdr THEN HeaderLevel(line) ELSE s.brace_level
    IN  IF inb
        THEN LET lvl == LevelAfter(lvl0, line)
             IN  IF IsFlagLine(stripped)
                 THEN [in_block |-> TRUE, brace_level |-> lvl,
                       modified |-> TRUE,
                       result |-> Append(s.result, ReplacedLine(line, value))]
                 ELSE IF IsClosing(lvl, stripped)
                 THEN [in_block |-> FALSE, brace_level |-> lvl,
                       modified |-> s.modified,
                       result |->
                          (IF ~s.modified
                           THEN Append(s.result, InsertedLine(line, value))
                           ELSE s.result) \o <<line>>]
                 ELSE [in_block |-> TRUE, brace_level |-> lvl,
                       modified |-> s.modified,
                       result |-> Append(s.result, line)]
        ELSE [in_block |-> FALSE, brace_level |-> lvl0,
              modified |-> s.modified,
              result |-> Append(s.result, line)]

\* the loop variables after the first n lines
RECURSIVE ScanTo(_, _, _)
ScanTo(lines, n, value) ==
    IF n = 0 THEN ScanInit
    ELSE LineStep(ScanTo(lines, n - 1, value), lines[n], value)

toggle_manifest_text(text, enable) ==
    LET lines == splitlines(text)
    IN  join(ScanTo(lines, Len(lines), ValueOf(enable)).result, <<"\n">>)

\* ------------------------------------------------------------------------
\* Manifest texts
\* ------------------------------------------------------------------------
L_header      == <<"mod_package", ":">>
L_header_open == <<"mod_package", ":", "{">>
L_open        == <<"{">>
L_close       == <<" ", "}">>
L_flag_false  == <<" ", "mp_mod_optional", ":", " ", "false">>
L_flag_true   == <<"mp_mod_optional", ":", " ", "true">>
L_empty       == <<>>
\* a flag line with more text after its value
L_flag_tail   == <<" ", "mp_mod_optional", ":", " ", "false", " ", "x">>

LinePool ==
    {L_header, L_header_open, L_open, L_close, L_flag_false, L_flag_true,
     L_empty}

TailPool == LinePool \cup {L_flag_tail}

Terminators == {<<"\n">>, <<"\r", "\n">>}

\* the texts of up to n lines of pool, their lines ended by terminator t
TextsOf(pool, n, t) ==
    {join(ls, t) : ls \in UNION {[1..k -> pool] : k \in 0..n}}

\* "\n" texts of up to MaxLines lines; "\r\n" texts, and texts with a
\* trailing-content flag line, of one line less
TextSources ==
    << [pool |-> LinePool, n |-> MaxLines,     t |-> <<"\n">>],
       [pool |-> LinePool, n |-> MaxLines - 1, t |-> <<"\r", "\n">>],
       [pool |-> TailPool, n |-> MaxLines - 1, t |-> <<"\n">>] >>

\* re.search(r'display_name:\s*"([^"]+)"', text): the captured group of the
\* leftmost match, <<>> for None (a captured group is never empty)
RECURSIVE SkipSpaces(_, _)
SkipSpaces(t, i) ==
    IF i <= Len(t) /\ IsSpace(t[i]) THEN SkipSpaces(t, i + 1) ELSE i

RECURSIVE QuotedFrom(_, _, _)
QuotedFrom(t, i, acc) ==
    IF i > Len(t) THEN <<>>
    ELSE IF t[i] = "\"" THEN acc
    ELSE QuotedFrom(t, i + 1, Append(acc, t[i]))

NameMatchAt(t, i) ==
    IF i + 1 <= Len(t) /\ t[i] = "display_name" /\ t[i + 1] = ":"
    THEN LET q == SkipSpaces(t, i + 2)
         IN  IF q <= Len(t) /\ t[q] = "\"" THEN QuotedFrom(t, q + 1, <<>>)
             ELSE <<>>
    ELSE <<>>

RECURSIVE NameSearch(_, _)
NameSearch(t, i) ==
    IF i > Len(t) THEN <<>>
    ELSE IF NameMatchAt(t, i) # <<>> THEN NameMatchAt(t, i)
    ELSE NameSearch(t, i + 1)

extract_display_name(text) == NameSearch(text, 1)

\* ------------------------------------------------------------------------
\* Manifest files found on disk
\* ------------------------------------------------------------------------
NL == <<"\n">>

\* block opened on the line after the header, flag present and true
M_enabled ==
    join(<<L_header, L_open, <<"display_name", ":", " ", "\"", "x", "\"">>,
           L_flag_true, L_close>>, NL) \o NL
\* the same with the flag false
M_disabled == join(<<L_header, L_open, L_flag_false, L_close>>, NL) \o NL
\* block without a flag line
M_noflag == join(<<L_header, L_open, L_close>>, NL)
\* block opened on the header line, no flag line
M_header_open == join(<<L_header_open, L_close>>, NL)
\* no mod_package block at all
M_noblock == join(<<L_open, L_close>>, NL)

ManifestPool == {M_enabled, M_disabled, M_noflag, M_header_open, M_noblock}

\* manifest_path.parent.name and manifest_path.parent.parent.name
version_folder(path) == <<"v">>
workshop_id_folder(path) == <<"id">>

\* ------------------------------------------------------------------------
\* State
\* ------------------------------------------------------------------------
VARIABLES
    pc,            \* position of main()
    app_id,        \* STEAM_APP_ID
    disk,          \* manifest path -> text of the file
    manifests,     \* paths returned by collect_mods
    mod_states,    \* the records (manifest_path, state, name)
    selected_idx,  \* cursor of the selector
    printed,       \* messages shown to the user
    last,          \* the last selector command: the key, the files it opened
                   \* for writing, the exception it raised and the record
                   \* whose process_folder_mod call raised it (0 for none)
    ed             \* one application of the manifest editor to a text

vars == <<pc, app_id, disk, manifests, mod_states, selected_idx, printed,
          last, ed>>

sysvars == <<pc, app_id, disk, manifests, mod_states, selected_idx, printed,
             last>>

NoCmd == [cmd |-> "none", writes |-> <<>>, fault |-> "none", at |-> 0]
EdIdle == [pc |-> "idle", text |-> <<>>, enable |-> FALSE, out |-> <<>>,
           out2 |-> <<>>]

Disks == UNION {[1..n -> ManifestPool] : n \in 0..MaxMods}

Init ==
    /\ pc = "choose_game"
    /\ app_id = "unset"
    /\ disk \in Disks
    /\ manifests = <<>>
    /\ mod_states = <<>>
    /\ selected_idx = 0
    /\ printed = <<>>
    /\ last = NoCmd
    /\ ed = EdIdle

\* one print() call; path is 0 when the message names no manifest
Msg(text) == [msg |-> text, path |-> 0]

Min(a, b) == IF a < b THEN a ELSE b
Max(a, b) == IF a > b THEN a ELSE b

\* ------------------------------------------------------------------------
\* main()
\* ------------------------------------------------------------------------
\* choice = curses.wrapper(choose_game)
ChooseGame ==
    /\ pc = "choose_game"
    /\ \E choice \in {"Q", "ETS2", "ATS"} :
          IF choice = "Q"
          THEN /\ pc' = "done"
               /\ UNCHANGED <<app_id, printed>>
          ELSE /\ pc' = "select_folder"
               /\ app_id' = (IF choice = "ATS" THEN "270880" ELSE "227300")
               /\ printed' = Append(printed,
                      IF choice = "ATS" THEN Msg("Looking for ATS")
                      ELSE Msg("Looking for ETS2"))
    /\ UNCHANGED <<disk, manifests, mod_states, selected_idx, last, ed>>

\* ets2_path = select_ets2_folder()
select_ets2_folder ==
    /\ pc = "select_folder"
    /\ \E gui \in BOOLEAN, folder \in BOOLEAN :
          /\ pc' = (IF folder THEN "find_workshop" ELSE "exited")
          /\ printed' =
                (IF gui THEN printed
                 ELSE Append(printed, Msg("GUI not available.")))
                \o (IF folder THEN <<>>
                    ELSE IF gui THEN <<Msg("No folder selected.")>>
                    ELSE <<Msg("No path provided.")>>)
    /\ UNCHANGED <<app_id, disk, manifests, mod_states, selected_idx, last,
                   ed>>

\* workshop_path = find_workshop_path(ets2_path); workshop_path.exists()
find_workshop_path ==
    /\ pc = "find_workshop"
    /\ \E exists \in BOOLEAN :
          IF exists
          THEN pc' = "collect" /\ UNCHANGED printed
          ELSE /\ pc' = "done"
               /\ printed' = Append(printed, Msg("Workshop path not found."))
    /\ UNCHANGED <<app_id, disk, manifests, mod_states, selected_idx, last,
                   ed>>

\* the empty result of collect_mods not tested
collect_mods_NoCheck ==
    /\ pc = "collect"
    /\ manifests' = [i \in 1..Len(disk) |-> i]
    /\ pc' = "load"
    /\ UNCHANGED <<app_id, disk, mod_states, selected_idx, printed, last, ed>>

\* manifests = collect_mods(workshop_path)
collect_mods ==
    /\ pc = "collect"
    /\ manifests' = [i \in 1..Len(disk) |-> i]
    /\ IF Len(disk) = 0
       THEN /\ pc' = "done"
            /\ printed' = Append(printed,
                                  Msg("No mods with manifest.sii found."))
       ELSE pc' = "load" /\ UNCHANGED printed
    /\ UNCHANGED <<app_id, disk, mod_states, selected_idx, last, ed>>

\* ------------------------------------------------------------------------
\* process_folder_mod
\* ------------------------------------------------------------------------
\* display_name = f"{display_name} [{version_folder}]"
DisplayName(path, content) ==
    LET declared == extract_display_name(content)
    IN  (IF declared = <<>> THEN workshop_id_folder(path) ELSE declared)
        \o <<" ", "[">> \o version_folder(path) \o <<"]">>

\* process_folder_mod(manifest_path) on a readable file: (current, name)
ReadRecord(d, path) ==
    [path |-> path,
     state |-> read_manifest_from_text(d[path]),
     name |-> DisplayName(path, d[path])]

\* the file after open(manifest_path, "w") and f.write(new_content)
Persisted(content, enable) == toggle_manifest_text(content, enable)

\* process_folder_mod(manifest_path, enable): every way the call can end.
\*   fault "none"  : the file holds the new content, the call returns enable
\*   fault "read"  : open(..., "r") or f.read() raises, the file is untouched
\*   fault "open"  : open(..., "w") raises, the file is untouched
\*   fault "write" : open(..., "w") has emptied the file and f.write or the
\*                   closing flush raises with only a prefix written
WriteOutcomes(d, path, enable) ==
    LET new == Persisted(d[path], enable)
    IN  {[disk |-> [d EXCEPT ![path] = new], fault |-> "none",
          wrote |-> <<path>>, current |-> enable]}
        \cup {[disk |-> d, fault |-> f, wrote |-> <<>>, current |-> enable]
                 : f \in {"read", "open"}}
        \cup {[disk |-> [d EXCEPT ![path] = SubSeq(new, 1, k)],
               fault |-> "write", wrote |-> <<path>>, current |-> enable]
                 : k \in 0..(Len(new) - 1)}

\* ------------------------------------------------------------------------
\* main(): building the records
\* ------------------------------------------------------------------------
\* the loop left at the first manifest that fails to load
RECURSIVE LoadFrom_Abort(_, _, _)
LoadFrom_Abort(d, i, bad) ==
    IF i > Len(manifests) THEN [states |-> <<>>, msgs |-> <<>>]
    ELSE IF manifests[i] \in bad
         THEN [states |-> <<>>,
               msgs |-> <<[msg |-> "Error reading", path |-> manifests[i]]>>]
         ELSE LET rest == LoadFrom_Abort(d, i + 1, bad)
              IN  [states |-> <<ReadRecord(d, manifests[i])>> \o rest.states,
                   msgs |-> rest.msgs]

RECURSIVE LoadFrom(_, _, _)
LoadFrom(d, i, bad) ==
    IF i > Len(manifests) THEN [states |-> <<>>, msgs |-> <<>>]
    ELSE LET rest == LoadFrom(d, i + 1, bad)
             path == manifests[i]
         IN  IF path \in bad
             THEN [states |-> rest.states,
                   msgs |-> <<[msg |-> "Error reading", path |-> path]>>
                            \o rest.msgs]
             ELSE [states |-> <<ReadRecord(d, path)>> \o rest.states,
                   msgs |-> rest.msgs]

\* for manifest_path in manifests: try process_folder_mod ... except: print;
\* then arrow_menu(mod_states) starts with selected_idx = 0
BuildRecords ==
    /\ pc = "load"
    /\ \E bad \in SUBSET {manifests[i] : i \in 1..Len(manifests)} :
          LET r == LoadFrom(disk, 1, bad)
          IN  /\ mod_states' = r.states
              /\ printed' = printed \o r.msgs
    /\ selected_idx' = 0
    /\ pc' = "browsing"
    /\ UNCHANGED <<app_id, disk, manifests, last, ed>>

\* ------------------------------------------------------------------------
\* arrow_menu.main_loop: one action per key
\* ------------------------------------------------------------------------
\* the position of list[idx] in a list of n items, 0 when Python raises
\* IndexError
PyIndex(idx, n) ==
    IF 0 <= idx /\ idx < n THEN idx + 1
    ELSE IF idx < 0 /\ -n <= idx THEN n + idx + 1
    ELSE 0

\* selected_idx = max(0, selected_idx - 1)
CursorUp(idx, n) == Max(0, idx - 1)

\* selected_idx = min(len(mod_states) - 1, selected_idx + 1)
CursorDown(idx, n) == Min(n - 1, idx + 1)

\* the new state stored in every record
SetState_All(states, i, new_state) ==
    [j \in DOMAIN states |->
        [path |-> states[j].path, state |-> new_state,
         name |-> states[j].name]]

\* mod_states[i] = (manifest_path, new_state, name)
SetState(states, i, new_state) ==
    [states EXCEPT ![i] = [path |-> @.path, state |-> new_state,
                           name |-> @.name]]

\* the uncaught exception leaves main_loop, curses.wrapper and main
Crash(fault, writes, cmd, at) ==
    /\ pc' = "crashed"
    /\ printed' = Append(printed, Msg("Traceback"))
    /\ last' = [cmd |-> cmd, writes |-> writes, fault |-> fault, at |-> at]

MoveUp ==
    /\ pc = "browsing"
    /\ selected_idx' = CursorUp(selected_idx, Len(mod_states))
    /\ last' = [NoCmd EXCEPT !.cmd = "up"]
    /\ UNCHANGED <<pc, app_id, disk, manifests, mod_states, printed, ed>>

MoveDown ==
    /\ pc = "browsing"
    /\ selected_idx' = CursorDown(selected_idx, Len(mod_states))
    /\ last' = [NoCmd EXCEPT !.cmd = "down"]
    /\ UNCHANGED <<pc, app_id, disk, manifests, mod_states, printed, ed>>

\* key == ord(' ')
ToggleSelected ==
    /\ pc = "browsing"
    /\ LET i == PyIndex(selected_idx, Len(mod_states))
       IN  IF i = 0
           THEN /\ Crash("index", <<>>, "toggle", 0)
                /\ UNCHANGED <<disk, mod_states>>
           ELSE \E o \in WriteOutcomes(disk, mod_states[i].path,
                                       ~mod_states[i].state) :
                   /\ disk' = o.disk
                   /\ IF o.fault = "none"
                      THEN /\ mod_states' = SetState(mod_states, i, o.current)
                           /\ last' = [cmd |-> "toggle", writes |-> o.wrote,
                                       fault |-> "none", at |-> 0]
                           /\ UNCHANGED <<pc, printed>>
                      ELSE /\ Crash(o.fault, o.wrote, "toggle", i)
                           /\ UNCHANGED mod_states
    /\ UNCHANGED <<app_id, manifests, selected_idx, ed>>

\* for i, (manifest_path, _, name) in enumerate(mod_states):
\*     process_folder_mod(manifest_path, value); mod_states[i] = (.., value, ..)
\* every way the loop can end, started at record i
RECURSIVE RunAll(_, _, _, _, _)
RunAll(d, states, writes, i, value) ==
    IF i > Len(states)
    THEN {[disk |-> d, states |-> states, writes |-> writes,
           fault |-> "none", at |-> 0]}
    ELSE UNION {
           IF o.fault = "none"
           THEN RunAll(o.disk, SetState(states, i, value),
                       writes \o o.wrote, i + 1, value)
           ELSE {[disk |-> o.disk, states |-> states,
                  writes |-> writes \o o.wrote, fault |-> o.fault,
                  at |-> i]}
           : o \in WriteOutcomes(d, states[i].path, value)}

SetAll(value, cmd) ==
    /\ pc = "browsing"
    /\ \E r \in RunAll(disk, mod_states, <<>>, 1, value) :
          /\ disk' = r.disk
          /\ mod_states' = r.states
          /\ IF r.fault = "none"
             THEN /\ last' = [cmd |-> cmd, writes |-> r.writes,
                              fault |-> "none", at |-> 0]
                  /\ UNCHANGED <<pc, printed>>
             ELSE Crash(r.fault, r.writes, cmd, r.at)
    /\ UNCHANGED <<app_id, manifests, selected_idx, ed>>

\* key in [ord('a'), ord('A')]
EnableAll == SetAll(TRUE, "enable_all")

\* key in [ord('d'), ord('D')]
DisableAll == SetAll(FALSE, "disable_all")

\* any other key handled as a request to enable the first record's manifest
OtherKey_Writes ==
    /\ pc = "browsing"
    /\ mod_states # <<>>
    /\ disk' = [disk EXCEPT ![mod_states[1].path] =
                                toggle_manifest_text(@, TRUE)]
    /\ last' = [NoCmd EXCEPT !.cmd = "other"]
    /\ UNCHANGED <<pc, app_id, manifests, mod_states, selected_idx,
                   printed, ed>>

\* any other key: no branch is taken
OtherKey ==
    /\ pc = "browsing"
    /\ last' = [NoCmd EXCEPT !.cmd = "other"]
    /\ UNCHANGED <<pc, app_id, disk, manifests, mod_states, selected_idx,
                   printed, ed>>

\* the quit key handled without the break: the loop goes on
Quit_NoBreak ==
    /\ pc = "browsing"
    /\ last' = [NoCmd EXCEPT !.cmd = "quit"]
    /\ UNCHANGED <<pc, app_id, disk, manifests, mod_states, selected_idx,
                   printed, ed>>

\* key in [ord('q'), ord('Q')]: break, main returns
Quit ==
    /\ pc = "browsing"
    /\ pc' = "done"
    /\ last' = [NoCmd EXCEPT !.cmd = "quit"]
    /\ UNCHANGED <<app_id, disk, manifests, mod_states, selected_idx,
                   printed, ed>>

Next ==
    \/ ChooseGame
    \/ select_ets2_folder
    \/ find_workshop_path
    \/ collect_mods
    \/ BuildRecords
    \/ MoveUp
    \/ MoveDown
    \/ ToggleSelected
    \/ EnableAll
    \/ DisableAll
    \/ OtherKey
    \/ Quit

Spec == Init /\ [][Next]_vars

\* ------------------------------------------------------------------------
\* The manifest editor applied to one text
\* ------------------------------------------------------------------------
EdInit ==
    /\ pc = "choose_game"
    /\ app_id = "unset"
    /\ disk = <<>>
    /\ manifests = <<>>
    /\ mod_states = <<>>
    /\ selected_idx = 0
    /\ printed = <<>>
    /\ last = NoCmd
    /\ \E i \in DOMAIN TextSources :
       \E t \in TextsOf(TextSources[i].pool, TextSources[i].n, TextSources[i].t) :
          ed = [pc |-> "input", text |-> t, enable |-> FALSE, out |-> <<>>,
                out2 |-> <<>>]

\* out = toggle_manifest_text(text, enable)
EdWrite ==
    /\ ed.pc = "input"
    /\ \E enable \in BOOLEAN :
          ed' = [ed EXCEPT !.pc = "written", !.enable = enable,
                           !.out = toggle_manifest_text(ed.text, enable)]
    /\ UNCHANGED sysvars

\* out2 = toggle_manifest_text(out, enable)
EdRewrite ==
    /\ ed.pc = "written"
    /\ ed' = [ed EXCEPT !.pc = "rewritten",
                        !.out2 = toggle_manifest_text(ed.out, ed.enable)]
    /\ UNCHANGED sysvars

EdNext == EdWrite \/ EdRewrite

SpecEditor == EdInit /\ [][EdNext]_vars

\* ------------------------------------------------------------------------
\* Properties of the manifest editor (checked under SpecEditor)
\* ------------------------------------------------------------------------
EdLines == splitlines(ed.text)

\* the lines that were joined by "\n" into t (t.split("\n"))
RECURSIVE SplitNL(_, _, _)
SplitNL(t, i, cur) ==
    IF i > Len(t) THEN <<cur>>
    ELSE IF t[i] = "\n" THEN <<cur>> \o SplitNL(t, i + 1, <<>>)
    ELSE SplitNL(t, i + 1, Append(cur, t[i]))

EdOutLines == SplitNL(ed.out, 1, <<>>)

\* line n is passed with the scan in block mode (in_block after the header
\* test of lines 70-72)
InBlockAt(lines, n) ==
    IsHeader(strip(lines[n])) \/ ScanTo(lines, n - 1, "true").in_block

\* the write sets a flag line: a line passed in block mode contains
\* "mp_mod_optional:", or the scan reaches a lone "}" line with its nesting
\* count at zero
WritesFlag(lines) ==
    \E n \in 1..Len(lines) :
       /\ InBlockAt(lines, n)
       /\ \/ IsFlagLine(strip(lines[n]))
          \/ IsClosing(ScanTo(lines, n, "true").brace_level, strip(lines[n]))

\* a line passed outside block mode holds "mp_mod_optional: true"
StrayTrue(lines) ==
    \E n \in 1..Len(lines) :
       ~InBlockAt(lines, n) /\ contains(lines[n], FlagTrueText)

HasHeader(lines) == \E n \in 1..Len(lines) : IsHeader(strip(lines[n]))

C3_Idempotent ==
    ed.pc = "rewritten" => ed.out2 = ed.out

EndsInTerminator(t) == t # <<>> /\ t[Len(t)] \in {"\n", "\r"}

BlocksInit ==
    [inside |-> FALSE, level |-> 0, opened |-> FALSE, started |-> 0,
     cur |-> 0, closes |-> FALSE]

BlocksStep(s, line) ==
    LET begins == ~s.inside /\ IsHeader(strip(line))
        base   == IF begins THEN 0 ELSE s.level
        lvl    == base + count(line, "{") - count(line, "}")
        opn    == (~begins /\ s.opened) \/ count(line, "{") > 0
        ends   == opn /\ lvl <= 0
    IN  IF s.inside \/ begins
        THEN [inside |-> ~ends, level |-> lvl, opened |-> opn,
              started |-> IF begins THEN s.started + 1 ELSE s.started,
              cur |-> IF begins THEN s.started + 1 ELSE s.started,
              closes |-> ends]
        ELSE [inside |-> FALSE, level |-> 0, opened |-> FALSE,
              started |-> s.started, cur |-> 0, closes |-> FALSE]

RECURSIVE BlocksTo(_, _)
BlocksTo(lines, n) ==
    IF n = 0 THEN BlocksInit ELSE BlocksStep(BlocksTo(lines, n - 1), lines[n])

BlockOf(lines, n) == BlocksTo(lines, n).cur

\* C4: in a text with two or more sibling mod_package blocks every later
\* block comes out as it went in: its lines appear unchanged and contiguous
\* in the output, at their input positions shifted by the lines inserted
\* before the block.
C4_LaterBlocksUntouched ==
    ed.pc = "written" =>
       \A b \in 2..BlocksTo(EdLines, Len(EdLines)).started :
          \E shift \in 0..(Len(EdOutLines) - Len(EdLines)) :
             \A j \in 1..Len(EdLines) :
                BlockOf(EdLines, j) = b =>
                   /\ j + shift <= Len(EdOutLines)
                   /\ EdOutLines[j + shift] = EdLines[j]

\* leading blanks of a line
Indentation(line) == SubSeq(line, 1, Len(line) - Len(lstrip(line)))

\* C5: a text with one mod_package block, closed by a "}" line, and no
\* mp_mod_optional line comes out with the flag line exactly once, right
\* before the block's closing line and indented as that line plus four
\* spaces, wherever the block's opening brace stands.
C5_InsertedBeforeClosing ==
    (/\ ed.pc = "written"
     /\ Cardinality({n \in 1..Len(EdLines) : IsHeader(strip(EdLines[n]))}) = 1
     /\ \A n \in 1..Len(EdLines) : ~IsFlagLine(EdLines[n]))
    => \A c \in 1..Len(EdLines) :
          (/\ BlocksTo(EdLines, c).closes
           /\ strip(EdLines[c]) = <<"}">>)
          => ed.out = join(SubSeq(EdLines, 1, c - 1)
                           \o << Indentation(EdLines[c])
                                 \o <<" ", " ", " ", " ", "mp_mod_optional",
                                      ":", " ", ValueOf(ed.enable)>> >>
                           \o SubSeq(EdLines, c, Len(EdLines)),
                           <<"\n">>)

\* ------------------------------------------------------------------------
\* Properties of the selector (checked under Spec)
\* ------------------------------------------------------------------------
NumRecords == Len(mod_states)
Cursor == PyIndex(selected_idx, NumRecords)
IOFaults == {"read", "open", "write"}

\* the flag the read operation reports for the file of record i
OnDisk(i) == read_manifest_from_text(disk[mod_states[i].path])

\* C1: right after a completed toggle-selected command the toggled record's
\* enabled value is the flag value read from its manifest file.
C1_ToggleMatchesDisk ==
    (pc = "browsing" /\ last.cmd = "toggle")
       => mod_states[Cursor].state = OnDisk(Cursor)

\* C7: while the selector runs, the cursor is never negative and never past
\* the last of the n records (an empty list is granted the cursor 0), and a
\* move leaves a cursor that already stands at that end where it is.
C7_CursorInRange ==
    pc = "browsing" =>
       (0 <= selected_idx /\ selected_idx <= Max(0, NumRecords - 1))

\* C8: a completed toggle-selected command flips the record at the cursor,
\* writes that record's manifest and no other file, and leaves the other
\* records, every path and name, the cursor and the other files unchanged.
C8_ToggleFrame ==
    [][(last'.cmd = "toggle" /\ last'.fault = "none") =>
          /\ Cursor \in 1..NumRecords
          /\ DOMAIN mod_states' = DOMAIN mod_states
          /\ mod_states'[Cursor].state = ~mod_states[Cursor].state
          /\ \A j \in 1..NumRecords :
                /\ mod_states'[j].path = mod_states[j].path
                /\ mod_states'[j].name = mod_states[j].name
                /\ j # Cursor => mod_states'[j].state = mod_states[j].state
          /\ selected_idx' = selected_idx
          /\ last'.writes = <<mod_states[Cursor].path>>
          /\ DOMAIN disk' = DOMAIN disk
          /\ \A p \in DOMAIN disk :
                p # mod_states[Cursor].path => disk'[p] = disk[p]
    ]_vars

\* a toggle of the second of two records that differ in state afterwards
C8_Witness ==
    /\ pc = "browsing"
    /\ last.cmd = "toggle"
    /\ NumRecords = 2
    /\ selected_idx = 1
    /\ mod_states[1].state # mod_states[2].state

\* C9: when a toggle-selected command fails to read or write the manifest,
\* the record keeps its enabled value, that value is the flag read from the
\* file, and the user is shown the failure.
C9_FailedToggleConsistent ==
    [][(last'.cmd = "toggle" /\ last'.fault \in IOFaults) =>
          /\ mod_states' = mod_states
          /\ mod_states'[last'.at].state
                = read_manifest_from_text(disk'[mod_states'[last'.at].path])
          /\ Len(printed') > Len(printed)
    ]_vars

\* C10: after enable-all or disable-all every record whose write succeeded
\* holds the requested value, a record whose write failed keeps its value,
\* and every record other than a failing one has had the write applied to
\* its file.
C10_AllApplied ==
    [][(last'.cmd \in {"enable_all", "disable_all"}) =>
          \A j \in 1..NumRecords :
             IF j = last'.at
             THEN mod_states'[j].state = mod_states[j].state
             ELSE /\ mod_states'[j].state = (last'.cmd = "enable_all")
                  /\ disk'[mod_states[j].path]
                        = Persisted(disk[mod_states[j].path],
                                    last'.cmd = "enable_all")
    ]_vars

\* C11: the quit command ends the selector loop (main returns), it writes
\* no file itself, and no step after it changes a manifest file.
C11_NoWriteAfterQuit ==
    [][/\ last'.cmd = "quit" =>
             (pc' = "done" /\ disk' = disk /\ last'.writes = <<>>)
       /\ last.cmd = "quit" => (disk' = disk /\ pc' = "done")
    ]_vars

\* quit after commands that rewrote both of two manifests
C11_Witness ==
    /\ pc = "done"
    /\ last.cmd = "quit"
    /\ NumRecords = 2
    /\ \A j \in 1..NumRecords : disk[mod_states[j].path] \notin ManifestPool

\* the manifests named by the records, in list order
RecordPaths(states) == [i \in 1..Len(states) |-> states[i].path]

\* the manifests named by the "Error reading" messages, in print order
RECURSIVE ReportedPaths(_)
ReportedPaths(msgs) ==
    IF msgs = <<>> THEN <<>>
    ELSE (IF Head(msgs).msg = "Error reading" THEN <<Head(msgs).path>>
          ELSE <<>>) \o ReportedPaths(Tail(msgs))

\* the manifests of ps, in discovery order
RECURSIVE InDiscoveryOrder(_, _)
InDiscoveryOrder(ps, i) ==
    IF i > Len(manifests) THEN <<>>
    ELSE (IF manifests[i] \in ps THEN <<manifests[i]>> ELSE <<>>)
         \o InDiscoveryOrder(ps, i + 1)

Range(f) == {f[i] : i \in DOMAIN f}

\* C12: building the records hands the selector exactly the manifests that
\* were read, in discovery order and each with the state and name read from
\* its file; every other discovered manifest is reported once, and the
\* manifests after a failing one are still loaded.
C12_RecordsAreReadableManifests ==
    [][pc = "load" =>
          LET loaded   == RecordPaths(mod_states')
              reported == ReportedPaths(SubSeq(printed', Len(printed) + 1,
                                               Len(printed')))
          IN  /\ pc' = "browsing"
              /\ loaded = InDiscoveryOrder(Range(loaded), 1)
              /\ reported = InDiscoveryOrder(Range(reported), 1)
              /\ Range(loaded) \cup Range(reported) = Range(manifests)
              /\ Range(loaded) \cap Range(reported) = {}
              /\ \A i \in 1..Len(mod_states') :
                    mod_states'[i] = ReadRecord(disk, mod_states'[i].path)
              /\ disk' = disk
    ]_vars

\* the first of two manifests failed to load and the second was still loaded
C12_Witness ==
    /\ pc = "browsing"
    /\ last = NoCmd
    /\ Len(manifests) = 2
    /\ RecordPaths(mod_states) = <<manifests[2]>>
    /\ ReportedPaths(printed) = <<manifests[1]>>

FatalMsgs ==
    {"No folder selected.", "No path provided.", "Workshop path not found.",
     "No mods with manifest.sii found."}

HasFatal(msgs) == \E i \in 1..Len(msgs) : msgs[i].msg \in FatalMsgs

\* C13: when no folder is selected, the workshop path does not exist or no
\* manifest is discovered, the step prints its message and ends the run:
\* the selector is never entered, no manifest file is written and no step
\* follows.
C13_FatalEndsRun ==
    [][LET new == SubSeq(printed', Len(printed) + 1, Len(printed'))
       IN  /\ ~HasFatal(printed)
           /\ HasFatal(new) =>
                 /\ pc' \in {"exited", "done"}
                 /\ disk' = disk
                 /\ mod_states' = <<>>
                 /\ last' = NoCmd
           /\ (pc = "select_folder" /\ pc' # "find_workshop") => HasFatal(new)
           /\ (pc = "find_workshop" /\ pc' # "collect") => HasFatal(new)
           /\ (pc = "collect" /\ (Len(disk) = 0 \/ pc' # "load"))
                 => HasFatal(new)
    ]_vars

\* the run ended because no manifest was discovered
C13_Witness ==
    /\ pc = "done"
    /\ Len(disk) = 0
    /\ printed # <<>>
    /\ printed[Len(printed)].msg = "No mods with manifest.sii found."
    /\ mod_states = <<>>
    /\ last = NoCmd

\* ------------------------------------------------------------------------
\* More properties of the manifest editor (checked under SpecEditor)
\* ------------------------------------------------------------------------
\* the position of the value token of a flag line: the first non-blank
\* after the first "mp_mod_optional:" (past the end when there is none)
RECURSIVE ValuePos(_, _)
ValuePos(line, i) ==
    IF i + 1 > Len(line) THEN Len(line) + 1
    ELSE IF line[i] = "mp_mod_optional" /\ line[i + 1] = ":"
    THEN SkipSpaces(line, i + 2)
    ELSE ValuePos(line, i + 1)

\* the line with its value token replaced and nothing else changed
WithValue(line, value) ==
    LET p == ValuePos(line, 1)
    IN  IF p <= Len(line) THEN [line EXCEPT ![p] = value]
        ELSE Append(line, value)

\* C14: a line passed in block mode that contains "mp_mod_optional:" comes
\* out as the same line with only its value token replaced by the requested
\* value: indentation and everything else on the line are kept.
C14_OnlyValueReplaced ==
    ed.pc = "written" =>
       \A n \in 1..Len(EdLines) :
          (InBlockAt(EdLines, n) /\ IsFlagLine(strip(EdLines[n]))) =>
             LET at == Len(ScanTo(EdLines, n, ValueOf(ed.enable)).result)
             IN  /\ at <= Len(EdOutLines)
                 /\ EdOutLines[at] = WithValue(EdLines[n], ValueOf(ed.enable))

NotFlagLine(line) == ~IsFlagLine(line)

\* the lines the write emitted (none for a text without lines)
EmittedLines == IF EdLines = <<>> THEN <<>> ELSE EdOutLines

\* the block closings the scan reaches before any flag line was rewritten
OpenClosings(lines) ==
    {n \in 1..Len(lines) :
        /\ InBlockAt(lines, n)
        /\ ~IsFlagLine(strip(lines[n]))
        /\ IsClosing(ScanTo(lines, n, "true").brace_level, strip(lines[n]))
        /\ ~ScanTo(lines, n - 1, "true").modified}

\* C16: the lines without "mp_mod_optional:" come out as they went in, none
\* altered, dropped, duplicated or reordered, and the output has at most one
\* extra line per block closing reached without a flag line seen.
C16_OtherLinesKept ==
    ed.pc = "written" =>
       /\ SelectSeq(EmittedLines, NotFlagLine)
             = SelectSeq(EdLines, NotFlagLine)
       /\ Len(EmittedLines) - Len(EdLines)
             \in 0..Cardinality(OpenClosings(EdLines))

\* a write that inserted a flag line and rewrote another one among lines
\* without the flag
C16_Witness ==
    /\ ed.pc = "written"
    /\ Len(EmittedLines) = Len(EdLines) + 1
    /\ \E n \in 1..Len(EdLines) :
          /\ InBlockAt(EdLines, n)
          /\ IsFlagLine(EdLines[n])
          /\ ReplacedLine(EdLines[n], ValueOf(ed.enable)) # EdLines[n]
    /\ Len(SelectSeq(EdLines, NotFlagLine)) >= 3

\* C15: once the selector is browsing, every command other than quit leaves
\* it browsing, a command whose write fails included; it ends only on quit.
C15_StaysBrowsing ==
    [][pc = "browsing" =>
          /\ last'.cmd # "quit" => pc' = "browsing"
          /\ pc' # "browsing" => (last'.cmd = "quit" /\ pc' = "done")
    ]_vars

\* C17: whenever toggle-selected executes, the cursor is the position of a
\* record: 0 <= cursor < number of records.
C17_ToggleHasRecord ==
    [][last'.cmd = "toggle" =>
          (0 <= selected_idx /\ selected_idx < NumRecords)
    ]_vars

WriteCmds == {"toggle", "enable_all", "disable_all"}

\* C18: a step that is not toggle-selected, enable-all or disable-all
\* (the start-up steps, building the records, move-up, move-down, an
\* unrecognised key, quit) writes no manifest and leaves every file and,
\* in the selector, every record unchanged.
C18_WritesOnlyOnCommand ==
    [][last'.cmd \notin WriteCmds =>
          /\ disk' = disk
          /\ last'.writes = <<>>
          /\ pc = "browsing" => mod_states' = mod_states
    ]_vars

\* move-down has moved the cursor to the second of two records and both
\* files are still manifests as discovered
C18_Witness ==
    /\ pc = "browsing"
    /\ last.cmd = "down"
    /\ NumRecords = 2
    /\ selected_idx = 1
    /\ \A j \in 1..NumRecords :
          /\ disk[mod_states[j].path] \in ManifestPool
          /\ mod_states[j].state = OnDisk(j)

====
